---------------------------- MODULE Spec2Model ----------------------------
(***************************************************************************)
(* Model of trending/trending.py: the trending score (a recency-weighted   *)
(* geometric mean of growth rates) and the calibration of its decay        *)
(* parameter p by bisection (find_p).                                      *)
(*                                                                         *)
(* Python floats are modelled by exact arithmetic: a rational is a pair    *)
(* <<num, den>> in lowest terms with den > 0, and a real power of a        *)
(* rational is kept symbolically (prime-exponent form, see RealOfRat).     *)
(* Rounding of IEEE doubles is therefore not part of the model.            *)
(***************************************************************************)
EXTENDS Integers, Sequences, FiniteSets

(***************************************************************************)
(* Bounds of the model.                                                    *)
(***************************************************************************)
\* find_p / compute_weight_frac: n in 1..MaxN, total_n in 1..MaxTotal or None
MaxN == 3
MaxTotal == 4
\* error_bound ranges over 1/d, d in 1..MaxEbDen
MaxEbDen == 16
\* decay parameters on the grid j/d, d in 2..MaxPDen
MaxPDen == 5
\* target fractions on the grid j/d, d in 2..MaxFracDen
MaxFracDen == 4
\* trending_score: series of length 0..MaxLen over -1..MaxVal
MaxLen == 3
MaxVal == 2
MaxPseudo == 1

(***************************************************************************)
(* Exact rational arithmetic (the values Python holds in floats).          *)
(***************************************************************************)
Abs(x) == IF x < 0 THEN -x ELSE x

RECURSIVE GCD(_, _)
GCD(x, y) == IF y = 0 THEN x ELSE GCD(y, x % y)

\* the rational x/y in lowest terms, y # 0
Rat(x, y) ==
    LET g == GCD(Abs(x), Abs(y))
        s == IF y < 0 THEN -1 ELSE 1
    IN  <<(s * x) \div g, (s * y) \div g>>

RInt(k) == <<k, 1>>
RZero == <<0, 1>>
ROne == <<1, 1>>

RAdd(x, y) ==
    LET g == GCD(x[2], y[2])
    IN  Rat(x[1] * (y[2] \div g) + y[1] * (x[2] \div g), (x[2] \div g) * y[2])

RNeg(x) == <<-x[1], x[2]>>
RSub(x, y) == RAdd(x, RNeg(y))

RMul(x, y) ==
    LET g1 == GCD(Abs(x[1]), y[2])
        g2 == GCD(Abs(y[1]), x[2])
    IN  Rat((x[1] \div g1) * (y[1] \div g2), (x[2] \div g2) * (y[2] \div g1))

\* x / y, y # 0 (the caller raises ZeroDivisionError before dividing by 0)
RDiv(x, y) == RMul(x, Rat(y[2], y[1]))

\* x < y, by comparing the integer parts and then, reciprocally, the
\* fractional parts: no product is formed, so none overflows
RECURSIVE RLess(_, _)
RLess(x, y) ==
    LET qx == x[1] \div x[2]
        qy == y[1] \div y[2]
        rx == x[1] % x[2]
        ry == y[1] % y[2]
    IN  IF qx # qy THEN qx < qy
        ELSE IF ry = 0 THEN FALSE
        ELSE IF rx = 0 THEN TRUE
        ELSE RLess(<<y[2], ry>>, <<x[2], rx>>)

RLeq(x, y) == x = y \/ RLess(x, y)

RAbs(x) == <<Abs(x[1]), x[2]>>

\* x ** k for an integer k >= 0 (0 ** 0 = 1, as in Python)
RECURSIVE RPow(_, _)
RPow(x, k) == IF k = 0 THEN ROne ELSE RMul(x, RPow(x, k - 1))

IsInt(x) == x[2] = 1

\* Optional arguments (total_n=None, window=None)
None == <<>>
Some(x) == <<x>>

(***************************************************************************)
(* State.                                                                  *)
(***************************************************************************)
VARIABLES
    \* find_p: arguments, locals and position
    frac, n, total_n, error_bound, low, high, p, test_frac, iters, pc,
    \* trending_score: arguments and outcome
    a, decay, window, pseudo_count, outcome, score,
    \* direct calls of compute_decaying_weights and compute_weight_frac
    hp, hq, hn, htotal, hweights, hfracs, hpc

calibVars == <<frac, n, total_n, error_bound, low, high, p, test_frac, iters, pc>>
scoreVars == <<a, decay, window, pseudo_count, outcome, score>>
helperVars == <<hp, hq, hn, htotal, hweights, hfracs, hpc>>
vars == <<calibVars, scoreVars, helperVars>>

(***************************************************************************)
(* Helper functions (trending.py, "Helper functions").                     *)
(***************************************************************************)
\* (1 - r**(n + 1)) / (1 - r); Python raises ZeroDivisionError at r = 1
sum_of_finite_geom(r, k) ==
    RDiv(RSub(ROne, RPow(r, k + 1)), RSub(ROne, r))

\* 1 / (1 - r); Python raises ZeroDivisionError at r = 1
sum_of_infinite_geom(r) == RDiv(ROne, RSub(ROne, r))

\* the ZeroDivisionError of the two sums: 1 - r = 0
GeomRaises(r) == RSub(ROne, r) = RZero

\* faulty variant: n passed to the finite sum without the "- 1"
compute_weight_frac_inclusive(q, k, total) ==
    LET total_weight == IF total = None
                        THEN sum_of_infinite_geom(q)
                        ELSE sum_of_finite_geom(q, total[1] - 1)
    IN  RDiv(sum_of_finite_geom(q, k), total_weight)

compute_weight_frac(q, k, total) ==
    LET total_weight == IF total = None
                        THEN sum_of_infinite_geom(q)
                        ELSE sum_of_finite_geom(q, total[1] - 1)
    IN  RDiv(sum_of_finite_geom(q, k - 1), total_weight)

\* faulty variant: exponent n - i instead of n - i - 1
compute_decaying_weights_shifted(k, q) ==
    [i \in 1..k |-> RPow(q, k - (i - 1))]

\* weights[i] for the Python index i - 1: p ** (n - (i - 1) - 1)
compute_decaying_weights(k, q) ==
    [i \in 1..k |-> RPow(q, k - (i - 1) - 1)]

\* Python's sum() over a list of numbers
RECURSIVE sum(_)
sum(s) == IF s = <<>> THEN RZero ELSE RAdd(s[1], sum(Tail(s)))

(***************************************************************************)
(* find_p: bisection for the decay parameter.                              *)
(***************************************************************************)
\* faulty variant: low + high / 2
Midpoint_precedence(lo, hi) == RAdd(lo, RDiv(hi, RInt(2)))

\* p = (low + high) / 2
Midpoint(lo, hi) == RDiv(RAdd(lo, hi), RInt(2))

\* faulty variant: the loop runs until the width is below half the error bound
Continue_half(lo, hi, eb) == RLess(RDiv(eb, RInt(2)), RSub(hi, lo))

\* the loop condition: high - low > error_bound
Continue(lo, hi, eb) == RLess(eb, RSub(hi, lo))

\* faulty variant: the two branches move the wrong end of the bracket
Bisect_swapped(lo, hi, mid, tf, target) ==
    IF RLess(target, tf) THEN [low |-> lo, high |-> mid, brk |-> FALSE]
    ELSE IF RLess(tf, target) THEN [low |-> mid, high |-> hi, brk |-> FALSE]
    ELSE [low |-> lo, high |-> hi, brk |-> TRUE]

\* faulty variant: no early exit, a tie is handled like test_frac > frac
Bisect_nobreak(lo, hi, mid, tf, target) ==
    IF RLess(tf, target) THEN [low |-> lo, high |-> mid, brk |-> FALSE]
    ELSE [low |-> mid, high |-> hi, brk |-> FALSE]

\* the if / elif / else of the loop body: the new bracket, or break
Bisect(lo, hi, mid, tf, target) ==
    IF RLess(target, tf) THEN [low |-> mid, high |-> hi, brk |-> FALSE]
    ELSE IF RLess(tf, target) THEN [low |-> lo, high |-> mid, brk |-> FALSE]
    ELSE [low |-> lo, high |-> hi, brk |-> TRUE]

\* decay parameters strictly inside (0, 1)
PGrid == UNION {{Rat(j, d) : j \in 1..(d - 1)} : d \in 2..MaxPDen}

\* target fractions strictly inside (0, 1)
FracGrid == UNION {{Rat(j, d) : j \in 1..(d - 1)} : d \in 2..MaxFracDen}

TotalArgs == {None} \cup {Some(t) : t \in 1..MaxTotal}

ErrorBounds == {Rat(1, d) : d \in 1..MaxEbDen}

\* the targets find_p is called with: fractions of the grid, and the weight
\* fractions of the decay parameters of the grid
Targets(k, total) ==
    FracGrid \cup {compute_weight_frac(q, k, total) : q \in PGrid}

\* values of the variables of a part of the program that is not running
CalibIdle ==
    /\ frac = RZero /\ n = 0 /\ total_n = None /\ error_bound = ROne
    /\ low = RZero /\ high = ROne /\ p = RZero /\ test_frac = RZero
    /\ iters = 0 /\ pc = "idle"

HelperIdle ==
    /\ hp = RZero /\ hq = RZero /\ hn = 0 /\ htotal = None
    /\ hweights = <<>> /\ hfracs = <<>> /\ hpc = "idle"

\* find_p up to the loop: low, high = 0, 1; p = (low + high) / 2;
\* test_frac = compute_weight_frac(p, n, total_n)
FindPInit ==
    /\ n \in 1..MaxN
    /\ total_n \in TotalArgs
    /\ frac \in Targets(n, total_n)
    /\ error_bound \in ErrorBounds
    /\ low = RInt(0)
    /\ high = RInt(1)
    /\ p = Midpoint(RInt(0), RInt(1))
    /\ test_frac = compute_weight_frac(Midpoint(RInt(0), RInt(1)), n, total_n)
    /\ iters = 0
    /\ pc = "loop"

\* one pass of the loop body (lines 163-170); iters counts the passes
FindPIter ==
    /\ pc = "loop"
    /\ Continue(low, high, error_bound)
    /\ IF GeomRaises(p)
       THEN /\ pc' = "raised"
            /\ UNCHANGED <<low, high, p, test_frac>>
       ELSE LET tf == compute_weight_frac(p, n, total_n)
                b == Bisect(low, high, p, tf, frac)
            IN  /\ test_frac' = tf
                /\ low' = b.low
                /\ high' = b.high
                /\ p' = IF b.brk THEN p ELSE Midpoint(b.low, b.high)
                /\ pc' = IF b.brk THEN "done" ELSE "loop"
    /\ iters' = iters + 1
    /\ UNCHANGED <<frac, n, total_n, error_bound, scoreVars, helperVars>>

\* the loop condition fails: return p
FindPReturn ==
    /\ pc = "loop"
    /\ ~Continue(low, high, error_bound)
    /\ pc' = "done"
    /\ UNCHANGED <<frac, n, total_n, error_bound, low, high, p, test_frac, iters,
                   scoreVars, helperVars>>

(***************************************************************************)
(* Direct calls of the two helpers.                                        *)
(***************************************************************************)
HelperInit ==
    /\ hp \in PGrid
    /\ hq \in PGrid
    /\ hn \in 1..MaxN
    /\ htotal \in TotalArgs
    /\ hweights = <<>>
    /\ hfracs = <<>>
    /\ hpc = "args"

\* weights = compute_decaying_weights(hn, hp)
CallDecayingWeights ==
    /\ hpc = "args"
    /\ hweights' = compute_decaying_weights(hn, hp)
    /\ hpc' = "weights"
    /\ UNCHANGED <<hp, hq, hn, htotal, hfracs, calibVars, scoreVars>>

\* compute_weight_frac at hp and at hq, same hn and htotal
CallWeightFrac ==
    /\ hpc = "args"
    /\ hfracs' = <<compute_weight_frac(hp, hn, htotal),
                   compute_weight_frac(hq, hn, htotal)>>
    /\ hpc' = "frac"
    /\ UNCHANGED <<hp, hq, hn, htotal, hweights, calibVars, scoreVars>>

(***************************************************************************)
(* Real numbers that are products of rational powers of rationals: the     *)
(* values r ** w and their products.  [complex, zero, mag, arg] stands for *)
(* 0 when zero, and otherwise for                                          *)
(*     (product over the primes q of q ** mag[q]) * e ** (i * pi * arg),   *)
(* with arg in (-1, 1]; complex tells a Python complex from a float (a     *)
(* float has arg 0 or 1: positive or negative).                            *)
(***************************************************************************)
\* the largest numerator or denominator of a value that reaches compute_rates
PrimeBound == MaxLen * (MaxVal + MaxPseudo)

Primes == {q \in 2..PrimeBound : \A d \in 2..(q - 1) : q % d # 0}

\* the multiplicity of the prime q in the integer m > 0
RECURSIVE Multiplicity(_, _)
Multiplicity(q, m) == IF m % q = 0 THEN 1 + Multiplicity(q, m \div q) ELSE 0

NoMag == [q \in Primes |-> RZero]

RealZero(cplx) == [complex |-> cplx, zero |-> TRUE, mag |-> NoMag, arg |-> RZero]
RealOne(cplx) == [complex |-> cplx, zero |-> FALSE, mag |-> NoMag, arg |-> RZero]

\* the float holding the rational x
RealOfRat(x) ==
    IF x[1] = 0 THEN RealZero(FALSE)
    ELSE [complex |-> FALSE, zero |-> FALSE,
          mag |-> [q \in Primes |->
                     RInt(Multiplicity(q, Abs(x[1])) - Multiplicity(q, x[2]))],
          arg |-> IF x[1] < 0 THEN ROne ELSE RZero]

\* an angle (in units of pi) brought into (-1, 1]
RECURSIVE ArgNorm(_)
ArgNorm(t) ==
    IF RLess(ROne, t) THEN ArgNorm(RSub(t, RInt(2)))
    ELSE IF RLeq(t, RInt(-1)) THEN ArgNorm(RAdd(t, RInt(2)))
    ELSE t

\* x ** w for a rational exponent w >= 0.  A negative float to a
\* non-integer power is a Python complex; x ** 0 is 1, also for x = 0.
RealPow(x, w) ==
    IF w = RZero THEN RealOne(x.complex)
    ELSE IF x.zero THEN RealZero(x.complex)
    ELSE LET cplx == x.complex \/ (x.arg # RZero /\ ~IsInt(w))
         IN  [complex |-> cplx, zero |-> FALSE,
              mag |-> [q \in Primes |-> RMul(x.mag[q], w)],
              arg |-> ArgNorm(RMul(x.arg, w))]

\* operator.mul
RealMul(x, y) ==
    IF x.zero \/ y.zero THEN RealZero(x.complex \/ y.complex)
    ELSE [complex |-> x.complex \/ y.complex, zero |-> FALSE,
          mag |-> [q \in Primes |-> RAdd(x.mag[q], y.mag[q])],
          arg |-> ArgNorm(RAdd(x.arg, y.arg))]

\* the score is the float 1.0
IsOne(x) == x = RealOne(FALSE)

(***************************************************************************)
(* The scorer.  A function that may raise returns [error, value]: error is *)
(* the exception's name, or "" when value is returned.                     *)
(***************************************************************************)
Ok(v) == [error |-> "", value |-> v]
Raise(e) == [error |-> e, value |-> <<>>]

\* statistics.mean of a non-empty list
mean(s) == RDiv(sum(s), RInt(Len(s)))

\* [mean(a[i:i+window]) for i in range(len(a)-window+1)]; mean([]) raises
\* StatisticsError, which a window of 0 reaches at i = 0
smooth(s, w) ==
    IF w = 0 THEN Raise("StatisticsError")
    ELSE Ok([i \in 1..(Len(s) - w + 1) |-> mean(SubSeq(s, i, i + w - 1))])

\* faulty variant: a zero denominator gives the rate 0 instead of raising
compute_rates_guarded(s) ==
    Ok([i \in 1..(Len(s) - 1) |->
          IF s[i] = RZero THEN RZero ELSE RDiv(s[i + 1], s[i])])

\* faulty variant: the relative change (a[i] - a[i-1]) / a[i-1]
compute_rates_change(s) ==
    IF \E i \in 1..(Len(s) - 1) : s[i] = RZero
    THEN Raise("ZeroDivisionError")
    ELSE Ok([i \in 1..(Len(s) - 1) |-> RDiv(RSub(s[i + 1], s[i]), s[i])])

\* [a[i] / a[i - 1] for i in range(1, len(a))]
compute_rates(s) ==
    IF \E i \in 1..(Len(s) - 1) : s[i] = RZero
    THEN Raise("ZeroDivisionError")
    ELSE Ok([i \in 1..(Len(s) - 1) |-> RDiv(s[i + 1], s[i])])

\* reduce(mul, s) for a non-empty s
RECURSIVE product(_)
product(s) == IF Len(s) = 1 THEN s[1] ELSE RealMul(s[1], product(Tail(s)))

\* reduce(mul, [r**w ...]) ** (1 / sum(weights)); reduce raises TypeError
\* on an empty list
geom_mean(rates, weights) ==
    LET k == IF Len(rates) < Len(weights) THEN Len(rates) ELSE Len(weights)
        weighted == [i \in 1..k |-> RealPow(RealOfRat(rates[i]), weights[i])]
    IN  IF k = 0 THEN Raise("TypeError")
        ELSE IF sum(weights) = RZero THEN Raise("ZeroDivisionError")
        ELSE Ok(RealPow(product(weighted), RDiv(ROne, sum(weights))))

\* the list that reaches compute_rates: smoothed if a window is given, then
\* offset by a positive pseudo_count
Prepared(s, w, pseudo) ==
    LET sm == IF w # None THEN smooth(s, w[1]) ELSE Ok(s)
    IN  IF sm.error # "" THEN sm
        ELSE IF pseudo > 0
             THEN Ok([i \in 1..Len(sm.value) |-> RAdd(sm.value[i], RInt(pseudo))])
             ELSE sm

trending_score(s, q, w, pseudo) ==
    IF Len(s) < 2 THEN Raise("Exception")
    ELSE LET b == Prepared(s, w, pseudo)
         IN  IF b.error # "" THEN b
             ELSE LET r == compute_rates(b.value)
                  IN  IF r.error # "" THEN r
                      ELSE geom_mean(r.value,
                                     compute_decaying_weights(Len(r.value), q))

RECURSIVE SeqsUpTo(_, _)
SeqsUpTo(S, k) ==
    IF k = 0 THEN {<<>>}
    ELSE LET shorter == SeqsUpTo(S, k - 1)
         IN  shorter \cup {Append(t, x) : t \in {u \in shorter : Len(u) = k - 1}, x \in S}

Values == {RInt(v) : v \in -1..MaxVal}

Decays == {RInt(0), RInt(1)} \cup {Rat(1, d) : d \in 2..MaxPDen}

WindowArgs == {None} \cup {Some(w) : w \in 0..MaxLen}

ScoreIdle ==
    /\ a = <<>> /\ decay = RZero /\ window = None /\ pseudo_count = 0
    /\ outcome = "idle" /\ score = RealZero(FALSE)

ScoreInit ==
    /\ a \in SeqsUpTo(Values, MaxLen)
    /\ decay \in Decays
    /\ window \in WindowArgs
    /\ pseudo_count \in 0..MaxPseudo
    /\ outcome = "called"
    /\ score = RealZero(FALSE)

\* the call returns its score or raises
TrendingScore ==
    /\ outcome = "called"
    /\ LET r == trending_score(a, decay, window, pseudo_count)
       IN  /\ outcome' = IF r.error = "" THEN "returned" ELSE r.error
           /\ score' = IF r.error = "" THEN r.value ELSE score
    /\ UNCHANGED <<a, decay, window, pseudo_count, calibVars, helperVars>>

(***************************************************************************)
(* Specifications: one per entry point.                                    *)
(***************************************************************************)
InitCalib == FindPInit /\ ScoreIdle /\ HelperIdle
NextCalib == FindPIter \/ FindPReturn
SpecCalib == InitCalib /\ [][NextCalib]_vars

InitScore == ScoreInit /\ CalibIdle /\ HelperIdle
NextScore == TrendingScore
SpecScore == InitScore /\ [][NextScore]_vars

InitHelpers == HelperInit /\ CalibIdle /\ ScoreIdle
NextHelpers == CallDecayingWeights \/ CallWeightFrac
SpecHelpers == InitHelpers /\ [][NextHelpers]_vars

Init == InitCalib \/ InitScore \/ InitHelpers
Next == NextCalib \/ NextScore \/ NextHelpers
Spec == Init /\ [][Next]_vars

(***************************************************************************)
(* Properties of trending_score (checked under SpecScore).                 *)
(***************************************************************************)
Returned == outcome = "returned"
Finished == outcome # "called"

IsConstant(s) == \A i \in 1..Len(s) : s[i] = s[1]
AllPositive(s) == \A i \in 1..Len(s) : RLess(RZero, s[i])

\* the denominators a[i - 1] of compute_rates, for the list that reaches it
Denominators ==
    LET b == Prepared(a, window, pseudo_count)
    IN  IF Len(a) < 2 \/ b.error # "" THEN {}
        ELSE {b.value[i] : i \in 1..(Len(b.value) - 1)}

\* C1: trending_score raises its invalid-input Exception exactly when
\* len(a) < 2, and for a strictly positive series of length >= 2, p in [0,1],
\* no window or a window w with 1 <= w <= len(a), and pseudo_count >= 0, it
\* returns a float score without raising.
C1_ReturnsUnlessTooShort ==
    Finished =>
        /\ (outcome = "Exception") <=> (Len(a) < 2)
        /\ ( /\ Len(a) >= 2
             /\ AllPositive(a)
             /\ (window = None \/ (1 <= window[1] /\ window[1] <= Len(a))) )
           => (Returned /\ ~score.complex)

\* C2 as stated: every constant series of length >= 2 scores exactly 1.0,
\* for every p in [0,1] (window and pseudo_count left at their defaults).
C2_ConstantScoresOne ==
    (Finished /\ Len(a) >= 2 /\ IsConstant(a) /\ window = None /\ pseudo_count = 0)
        => (Returned /\ IsOne(score))

\* C2 amended: every constant series of NONZERO value and length >= 2 scores
\* exactly 1.0, for every p in [0,1]; the constant series of zeros raises
\* ZeroDivisionError.
C2_NonzeroConstantScoresOne ==
    (Finished /\ Len(a) >= 2 /\ IsConstant(a) /\ window = None /\ pseudo_count = 0)
        => IF a[1] = RZero THEN outcome = "ZeroDivisionError"
           ELSE Returned /\ IsOne(score)

C2_Witness ==
    /\ Returned /\ Len(a) = 3 /\ IsConstant(a) /\ a[1] = RInt(2)
    /\ window = None /\ pseudo_count = 0
    /\ decay = Rat(1, 2) /\ IsOne(score)

\* C8 as stated: whenever a denominator reaching compute_rates is zero or
\* negative, the call raises instead of returning a score.
C8_NonPositiveDenominatorRaises ==
    (Finished /\ \E d \in Denominators : RLeq(d, RZero)) => ~Returned

\* C8 amended: the call raises (ZeroDivisionError) whenever a denominator
\* reaching compute_rates is zero; when the denominators are all nonzero, be
\* they negative, nothing is raised and the call returns a result.
C8_ZeroDenominatorRaises ==
    (Finished /\ Denominators # {}) =>
        IF RZero \in Denominators THEN outcome = "ZeroDivisionError"
        ELSE Returned

C8_Witness ==
    /\ outcome = "ZeroDivisionError"
    /\ a = <<RInt(1), RInt(0), RInt(2)>> /\ window = None /\ pseudo_count = 0

(***************************************************************************)
(* Properties of find_p (checked under SpecCalib).                         *)
(***************************************************************************)
\* ceil(log2(1 / eb)): the least k with 2^k * eb >= 1
RECURSIVE CeilLog2Inv(_, _)
CeilLog2Inv(eb, k) ==
    IF RLeq(ROne, RMul(RInt(2 ^ k), eb)) THEN k ELSE CeilLog2Inv(eb, k + 1)

IterBound == CeilLog2Inv(error_bound, 0)

InvertibleTotal == total_n = None \/ total_n[1] > n

C6_BoundaryTargetReturnsOne ==
    ( /\ pc = "done" /\ total_n # None /\ n < total_n[1]
      /\ RLess(error_bound, ROne) )
    => /\ frac = Rat(n, total_n[1]) => p = ROne
       /\ RLess(Rat(n, total_n[1]), frac) => RLess(p, ROne)

\* C9: a pass of the loop that finds the weight fraction at p equal to the
\* target ends the loop without changing low, high or p; find_p returns
\* that p, whose weight fraction is the target.
C9_TieExits ==
    [][ ( /\ pc = "loop"
          /\ Continue(low, high, error_bound)
          /\ compute_weight_frac(p, n, total_n) = frac )
        => ( /\ pc' = "done" /\ low' = low /\ high' = high /\ p' = p
             /\ test_frac' = frac
             /\ compute_weight_frac(p', n, total_n) = frac ) ]_vars

C9_Witness ==
    /\ pc = "done" /\ iters = 2 /\ test_frac = frac
    /\ Continue(low, high, error_bound)
    /\ compute_weight_frac(p, n, total_n) = frac

C5_NonIncreasing ==
    (hpc = "frac" /\ RLess(hp, hq)) => RLeq(hfracs[2], hfracs[1])

\* C5 amended: the same for total_n absent or total_n >= n; for a finite
\* total_n < n the weight fraction is strictly increasing in p.
C5_NonIncreasingTotalAtLeastN ==
    (hpc = "frac" /\ RLess(hp, hq)) =>
        IF htotal = None \/ htotal[1] >= hn
        THEN RLeq(hfracs[2], hfracs[1])
        ELSE RLess(hfracs[1], hfracs[2])

C5_Witness ==
    /\ hpc = "frac" /\ RLess(hp, hq)
    /\ htotal = Some(3) /\ hn = 2
    /\ RLess(hfracs[2], hfracs[1])

\* C7: compute_decaying_weights(n, p) has n weights, weight[i] = p^(n-1-i),
\* the last one 1, and their sum is sum_of_finite_geom(p, n-1), which is
\* (1 - p^n)/(1 - p).
C7_WeightsSum ==
    hpc = "weights" =>
        /\ Len(hweights) = hn
        /\ \A i \in 0..(hn - 1) : hweights[i + 1] = RPow(hp, hn - 1 - i)
        /\ hweights[hn] = ROne
        /\ sum(hweights) = sum_of_finite_geom(hp, hn - 1)
        /\ RMul(sum(hweights), RSub(ROne, hp)) = RSub(ROne, RPow(hp, hn))

C7_Witness ==
    /\ hpc = "weights" /\ hn = 3 /\ hp = Rat(2, 3)
    /\ hweights = <<Rat(4, 9), Rat(2, 3), ROne>>

=============================================================================
